---- MODULE Spec2Model ----
(***************************************************************************)
(* Model of the file-type handler framework of synapsegenie:               *)
(*   genie/example_filetype_format.py  FileTypeFormat (template methods)   *)
(*   example_registry/csv.py           Csv (the reference handler)         *)
(* and of the dispatch / report functions of genie.validate, which the     *)
(* unit tests in tests/unit/test_validate.py exercise.                     *)
(*                                                                         *)
(* The program is single threaded.  A state is the record of the last      *)
(* call of an entry point (its arguments, the hooks it called in order,    *)
(* what it returned or raised) together with the output files on disk.     *)
(***************************************************************************)
EXTENDS Integers, Sequences, FiniteSets, TLC

VARIABLES registry, op, args, calls, result, fs

vars == <<registry, op, args, calls, result, fs>>

(***************************************************************************)
(* Bounds of the model.                                                    *)
(***************************************************************************)
\* longest handler registry that is enumerated
MaxRegistry == 2

(***************************************************************************)
(* Python values.                                                          *)
(***************************************************************************)
None == "None"

\* the empty dict, dict()
EmptyBag == [k \in {} |-> None]

\* dict.update left out: a stays as it was
Update_dropped(a, b) == a

\* dict.update: the keys of b override those of a
Update(a, b) == [k \in (DOMAIN a) \cup (DOMAIN b) |-> IF k \in DOMAIN b THEN b[k] ELSE a[k]]

\* outcome of a call: a returned value or a raised exception
Return(v) == [kind |-> "return", exc |-> "", msg |-> "", value |-> v]

Raise(e, m) == [kind |-> "raise", exc |-> e, msg |-> m, value |-> None]

(***************************************************************************)
(* str and os.path helpers, computed on the characters of the string.      *)
(***************************************************************************)
\* str.endswith
endswith(s, suffix) == /\ Len(s) >= Len(suffix)
                       /\ SubSeq(s, Len(s) - Len(suffix) + 1, Len(s)) = suffix

\* positions of the character c in s
Positions(s, c) == {i \in 1..Len(s) : SubSeq(s, i, i) = c}

SetMax(S) == CHOOSE m \in S : \A n \in S : n <= m

SetMin(S) == CHOOSE m \in S : \A n \in S : m <= n

\* os.path.basename: what follows the last "/"
basename(p) == IF Positions(p, "/") = {} THEN p ELSE SubSeq(p, SetMax(Positions(p, "/")) + 1, Len(p))

LowerChars == "abcdefghijklmnopqrstuvwxyz"

UpperChars == "ABCDEFGHIJKLMNOPQRSTUVWXYZ"

\* str.upper on one character
UpperChar(c) == IF Positions(LowerChars, c) = {} THEN c ELSE LET i == SetMin(Positions(LowerChars, c)) IN SubSeq(UpperChars, i, i)

RECURSIVE upper(_)
\* str.upper
upper(s) == IF s = "" THEN "" ELSE UpperChar(SubSeq(s, 1, 1)) \o upper(SubSeq(s, 2, Len(s)))

\* str.split(sep) for a one-character separator
RECURSIVE Split(_, _)
Split(s, sep) == IF Positions(s, sep) = {} THEN <<s>> ELSE LET i == SetMin(Positions(s, sep)) IN <<SubSeq(s, 1, i - 1)>> \o Split(SubSeq(s, i + 1, Len(s)), sep)

\* sep.join(list)
RECURSIVE Join(_, _)
Join(l, sep) == IF l = <<>> THEN "" ELSE IF Len(l) = 1 THEN l[1] ELSE l[1] \o sep \o Join(Tail(l), sep)

(***************************************************************************)
(* The classes.  FileTypeFormat and Csv are the classes of the source;     *)
(* Clinical and Cna stand for the handlers the unit tests name             *)
(* ("clinical", "cna"), which override the hooks of FileTypeFormat.        *)
(***************************************************************************)
Base == "FileTypeFormat"

\* the handlers the tests name
ExampleClasses == {"Clinical", "Cna"}

Classes == {"FileTypeFormat", "Csv"} \cup ExampleClasses

\* the attributes the class bodies of the handlers the tests name define
Example_Defines(cls) == CASE cls = "Clinical" -> {"_fileType", "_validation_kwargs", "_validateFilename", "preprocess", "process_steps", "_validate"}
                          [] cls = "Cna" -> {"_fileType", "_validateFilename", "process_steps", "_validate"}

\* the attributes each class body defines
Defines(cls) == CASE cls = "FileTypeFormat" -> {"_process_kwargs", "_fileType", "_validation_kwargs", "readFile", "_validateFilename", "validateFilename", "process_steps", "preprocess", "process", "_validate", "validate"}
                  [] cls = "Csv" -> {"_filetype", "_process_kwargs", "_validate_filetype", "_process", "process_steps", "_validate"}
                  [] cls \in ExampleClasses -> Example_Defines(cls)

\* attribute lookup on an instance of cls: the class itself, then its base class
Resolve(cls, attr) == IF attr \in Defines(cls) THEN cls ELSE Base

\* the tags of the handlers the tests name
Example_fileType(cls) == CASE cls = "Clinical" -> "clinical"
                           [] cls = "Cna" -> "cna"

\* self._fileType
_fileType(cls) == IF Resolve(cls, "_fileType") = "FileTypeFormat" THEN "fileType" ELSE Example_fileType(Resolve(cls, "_fileType"))

\* Csv._filetype, the attribute Csv sets
_filetype == "csv"

\* self._process_kwargs
_process_kwargs(cls) == CASE Resolve(cls, "_process_kwargs") = "FileTypeFormat" -> <<"newPath", "databaseSynId">>
                          [] Resolve(cls, "_process_kwargs") = "Csv" -> <<"newPath", "databaseSynId">>

\* the keywords the validation of the clinical handler is called with
Example_validation_kwargs == <<"oncotreeLink", "testing", "noSymbolCheck">>

\* self._validation_kwargs
_validation_kwargs(cls) == IF Resolve(cls, "_validation_kwargs") = "FileTypeFormat" THEN <<>> ELSE Example_validation_kwargs

\* Csv._validate_filetype: TRUE when its assertion passes
_validate_filetype(filePath) == endswith(basename(filePath), ".csv")

\* the filename rules of the handlers the tests name
Example_validateFilename(cls, filePath, center) == CASE cls = "Clinical" -> [i \in 1..Len(filePath) |-> basename(filePath[i])] \in {<<"data_clinical_supp_" \o center \o ".txt">>, <<"data_clinical_supp_sample_" \o center \o ".txt", "data_clinical_supp_patient_" \o center \o ".txt">>}
                                                     [] cls = "Cna" -> basename(filePath[1]) = "data_CNA_" \o center \o ".txt"

\* self._validateFilename: TRUE when the hook returns, FALSE when its assertion fails
_validateFilename(cls, filePath, center) == IF Resolve(cls, "_validateFilename") = "FileTypeFormat" THEN TRUE ELSE Example_validateFilename(Resolve(cls, "_validateFilename"), filePath, center)

\* validateFilename with the call of the _validateFilename hook left out
validateFilename_nohook(cls, filePath, center) == Return(_fileType(cls))

\* FileTypeFormat.validateFilename
validateFilename(cls, filePath, center) == IF _validateFilename(cls, filePath, center) THEN Return(_fileType(cls)) ELSE Raise("AssertionError", "")

(***************************************************************************)
(* The input files on disk: path |-> lines.  Cells are non-numeric text,   *)
(* header cells are non-empty and no row is wider than its header, so      *)
(* pandas keeps every cell as the string it read.                          *)
(***************************************************************************)
Disk == [p \in {"in/t.csv", "e.csv", "blank.csv", "data_clinical_supp_SAGE.txt"} |->
           CASE p \in {"in/t.csv", "data_clinical_supp_SAGE.txt"} -> <<"#exported", "id\tvalue\tid", "a\tb\tc", "d\t#x", "", "e\tf">>
             [] p = "e.csv" -> <<"id\tId">>
             [] p = "blank.csv" -> <<"#nothing", "">>]

\* the missing value of pandas
NaN == "NaN"

\* comment="#": the rest of a line from the comment character on is dropped
StripComment(line) == IF Positions(line, "#") = {} THEN line ELSE SubSeq(line, 1, SetMin(Positions(line, "#")) - 1)

\* the lines read_csv parses: comments stripped, empty lines skipped
DataLines(lines) == SelectSeq([i \in 1..Len(lines) |-> StripComment(lines[i])], LAMBDA l : l /= "")

Digits == "123456789"

\* read_csv renames a repeated column name: x, x.1, x.2, ...
MangleDupes(h) == [i \in 1..Len(h) |-> LET k == Cardinality({j \in 1..(i - 1) : h[j] = h[i]}) IN IF k = 0 THEN h[i] ELSE h[i] \o "." \o SubSeq(Digits, k, k)]

\* one parsed data row: an empty field is NaN, a short row is padded with NaN
ParseRow(line, width) == LET f == Split(line, "\t") IN [i \in 1..width |-> IF i > Len(f) \/ f[i] = "" THEN NaN ELSE f[i]]

DataFrame(columns, rows) == [type |-> "DataFrame", columns |-> columns, rows |-> rows]

\* a str argument
Str(s) == [type |-> "str", columns |-> <<>>, rows |-> <<>>, value |-> s]

\* pd.read_csv(filePath, sep="\t", comment="#")
read_csv(filePath) == IF filePath \notin DOMAIN Disk THEN Raise("FileNotFoundError", filePath)
                      ELSE LET d == DataLines(Disk[filePath]) IN
                           IF d = <<>> THEN Raise("EmptyDataError", "No columns to parse from file")
                           ELSE LET h == MangleDupes(Split(d[1], "\t")) IN Return(DataFrame(h, [i \in 1..(Len(d) - 1) |-> ParseRow(d[i + 1], Len(h))]))

\* FileTypeFormat.readFile
readFile(filePathList) == read_csv(filePathList[1])

\* df.to_csv(newPath, sep="\t", index=False): the lines written, NaN as the empty field
to_csv(df) == <<Join(df.columns, "\t")>> \o [i \in 1..Len(df.rows) |-> Join([j \in 1..Len(df.rows[i]) |-> IF df.rows[i][j] = NaN THEN "" ELSE df.rows[i][j]], "\t")]

\* df.empty
empty(df) == Len(df.columns) = 0 \/ Len(df.rows) = 0

\* Csv._process with the upper-cased names computed and not assigned
_process_unassigned(df) == df

\* Csv._process
_process(df) == [df EXCEPT !.columns = [i \in 1..Len(df.columns) |-> upper(df.columns[i])]]

(***************************************************************************)
(* The hooks.  A hook called with keywords its signature does not name     *)
(* raises TypeError, as any Python call does.                              *)
(***************************************************************************)
Call(fn, kwargs) == [fn |-> fn, kwargs |-> kwargs]

\* Csv.process_steps(df, newPath, databaseSynId)
Csv_process_steps(df, kwargs, files) == IF DOMAIN kwargs /= {"newPath", "databaseSynId"} THEN [result |-> Raise("TypeError", "process_steps"), fs |-> files]
                                        ELSE IF df.type /= "DataFrame" THEN [result |-> Raise("AttributeError", "columns"), fs |-> files]
                                        ELSE [result |-> Return(kwargs["newPath"]), fs |-> [files EXCEPT ![kwargs["newPath"]] = to_csv(_process(df))]]

\* the transform of the handlers the tests name: load, normalise, write to newPath
Example_process_steps(filePath, kwargs, files) == IF "newPath" \notin DOMAIN kwargs THEN [result |-> Raise("TypeError", "process_steps"), fs |-> files]
                                                  ELSE IF read_csv(filePath.value).kind = "raise" THEN [result |-> read_csv(filePath.value), fs |-> files]
                                                  ELSE [result |-> Return(kwargs["newPath"]), fs |-> [files EXCEPT ![kwargs["newPath"]] = to_csv(_process(read_csv(filePath.value).value))]]

\* self.process_steps(filePath, **mykwargs)
process_steps(cls, filePath, kwargs, files) == CASE Resolve(cls, "process_steps") = "FileTypeFormat" -> [result |-> Return(None), fs |-> files]
                                                 [] Resolve(cls, "process_steps") = "Csv" -> Csv_process_steps(filePath, kwargs, files)
                                                 [] Resolve(cls, "process_steps") \in ExampleClasses -> Example_process_steps(filePath, kwargs, files)

\* self.preprocess(filePath, **kwargs); pre is what an overriding hook derives
preprocess(cls, pre) == IF Resolve(cls, "preprocess") = "FileTypeFormat" THEN EmptyBag ELSE pre

\* Csv._validate(df)
Csv_validate(df, kwargs) == IF DOMAIN kwargs /= {} THEN Raise("TypeError", "_validate")
                            ELSE Return(<<IF empty(df) THEN _filetype \o ": File must not be empty" ELSE "", "">>)

\* self._validate(df, **mykwargs); rep is what an overriding hook finds
_validate(cls, df, kwargs, rep) == CASE Resolve(cls, "_validate") = "FileTypeFormat" -> Return(<<"", "">>)
                                     [] Resolve(cls, "_validate") = "Csv" -> Csv_validate(df, kwargs)
                                     [] Resolve(cls, "_validate") \in ExampleClasses -> Return(rep)

(***************************************************************************)
(* The template methods of FileTypeFormat.                                 *)
(***************************************************************************)
\* the required parameters, by position, that are not keys of kwargs
Missing(required, kwargs) == {i \in 1..Len(required) : required[i] \notin DOMAIN kwargs}

\* the failing assert naming the last required parameter instead of the missing one
NotInParameterList_last(required, kwargs) == Raise("AssertionError", required[Len(required)] \o " not in parameter list")

\* the failing assert of the required-parameter loop
NotInParameterList(required, kwargs) == Raise("AssertionError", required[SetMin(Missing(required, kwargs))] \o " not in parameter list")

\* mykwargs replaced by the whole of kwargs
MyKwargs_all(required, kwargs) == kwargs

\* mykwargs once the loop has run through
MyKwargs(required, kwargs) == [k \in {required[i] : i \in 1..Len(required)} |-> kwargs[k]]

\* FileTypeFormat.process
process(cls, filePath, kwargs, pre, files) ==
  LET preprocess_args == preprocess(cls, pre)
      merged == Update(kwargs, preprocess_args)
      required == _process_kwargs(cls)
      log == <<Call("preprocess", kwargs)>>
  IN IF Missing(required, merged) /= {} THEN [result |-> NotInParameterList(required, merged), calls |-> log, fs |-> files]
     ELSE LET steps == process_steps(cls, Str(filePath), MyKwargs(required, merged), files)
          IN [result |-> steps.result, calls |-> log \o <<Call("process_steps", MyKwargs(required, merged))>>, fs |-> steps.fs]

\* FileTypeFormat.validate
validate(cls, filePathList, kwargs, rep) ==
  LET required == _validation_kwargs(cls)
  IN IF Missing(required, kwargs) /= {} THEN [result |-> NotInParameterList(required, kwargs), calls |-> <<>>]
     ELSE LET df == readFile(filePathList)
          IN IF df.kind = "raise" THEN [result |-> df, calls |-> <<Call("readFile", EmptyBag)>>]
             ELSE [result |-> _validate(cls, df.value, MyKwargs(required, kwargs), rep), calls |-> <<Call("readFile", EmptyBag), Call("_validate", MyKwargs(required, kwargs))>>]

(***************************************************************************)
(* genie.validate: dispatch, report formatting and the input guard.        *)
(***************************************************************************)
FilenameMessage == "Your filename is incorrect! Please change your filename before you run the validator or specify --filetype if you are running the validator locally"

ParentidMessage == "If you used --parentid, you must not use --filetype"

ValidatedBanner == "YOUR FILE IS VALIDATED!\n"

ErrorsBanner == "----------------ERRORS----------------\n"

WarningsBanner == "-------------WARNINGS-------------\n"

\* the handlers of reg, from position i on, that are asked before one recognizes the files
RECURSIVE Asked(_, _, _, _)
Asked(reg, i, filepathlist, center) == IF i > Len(reg) THEN <<>>
                                       ELSE IF validateFilename(reg[i].cls, filepathlist, center).kind = "return" THEN <<reg[i].tag>>
                                       ELSE <<reg[i].tag>> \o Asked(reg, i + 1, filepathlist, center)

\* validate.determine_filetype: the tag of the first handler that recognizes the files
RECURSIVE determine_filetype(_, _, _, _)
determine_filetype(reg, i, filepathlist, center) == IF i > Len(reg) THEN None
                                                    ELSE IF validateFilename(reg[i].cls, filepathlist, center).kind = "return" THEN reg[i].tag
                                                    ELSE determine_filetype(reg, i + 1, filepathlist, center)

\* the report with the warnings block left out when there is no warning
determine_validity_and_log_symmetric(total_error, warning) == [valid |-> total_error = "", message |-> (IF total_error = "" THEN ValidatedBanner ELSE ErrorsBanner \o total_error) \o (IF warning /= "" THEN WarningsBanner \o warning ELSE "")]

\* validate.determine_validity_and_log
determine_validity_and_log(total_error, warning) == IF total_error = "" THEN [valid |-> TRUE, message |-> IF warning /= "" THEN ValidatedBanner \o WarningsBanner \o warning ELSE ValidatedBanner]
                                                    ELSE [valid |-> FALSE, message |-> ErrorsBanner \o total_error \o WarningsBanner \o warning]

\* the class registered under a tag
ClassOf(reg, tag) == reg[CHOOSE i \in 1..Len(reg) : reg[i].tag = tag].cls

Tags(reg) == {reg[i].tag : i \in 1..Len(reg)}

\* validate.validate_single_file
validate_single_file(reg, filepathlist, center, filetype, kwargs, rep) ==
  LET dispatched == filetype = None
      resolved == IF dispatched THEN determine_filetype(reg, 1, filepathlist, center) ELSE filetype
      log == IF dispatched THEN <<Call("determine_filetype", [filepathlist |-> filepathlist, center |-> center])>> ELSE <<>>
  IN IF resolved \notin Tags(reg) THEN [result |-> Raise("ValueError", FilenameMessage), calls |-> log]
     ELSE LET v == validate(ClassOf(reg, resolved), filepathlist, kwargs, rep)
          IN IF v.result.kind = "raise" THEN [result |-> v.result, calls |-> log \o <<Call("validate", kwargs)>> \o v.calls]
             ELSE LET report == determine_validity_and_log(v.result.value[1], v.result.value[2])
                  IN [result |-> Return([valid |-> report.valid, message |-> report.message, filetype |-> resolved]),
                      calls |-> log \o <<Call("validate", kwargs)>> \o v.calls \o <<Call("determine_validity_and_log", EmptyBag)>>]

\* the guard failing as soon as one override is given
_check_parentid_input_either(parentid, filetype) == IF parentid /= None \/ filetype /= None THEN Raise("ValueError", ParentidMessage) ELSE Return(None)

\* validate._check_parentid_input
_check_parentid_input(parentid, filetype) == IF parentid /= None /\ filetype /= None THEN Raise("ValueError", ParentidMessage) ELSE Return(None)

(***************************************************************************)
(* The inputs that are enumerated.                                         *)
(***************************************************************************)
Centers == {"SAGE", "NYU"}

FileSets == {<<"in/t.csv">>, <<"e.csv">>, <<"blank.csv">>, <<"wrong.txt">>, <<"data_CNA_SAGE.txt">>, <<"data_clinical_supp_SAGE.txt">>, <<"data_clinical_supp_sample_SAGE.txt", "data_clinical_supp_patient_SAGE.txt">>}

Paths == {"in/t.csv", "e.csv", "wrong.txt", "t.csv/readme", "csv", "data_CNA_SAGE.txt"}

OutPaths == {"out/a.txt", "out/b.txt"}

\* every dict with keys among DOMAIN vals and, under key k, a value of vals[k]
BagsOver(vals) == UNION {{b \in [S -> UNION {vals[k] : k \in S}] : \A k \in S : b[k] \in vals[k]} : S \in SUBSET (DOMAIN vals)}

ProcessBags == BagsOver([k \in {"newPath", "databaseSynId", "foo"} |-> CASE k = "newPath" -> OutPaths [] k = "databaseSynId" -> {"syn1"} [] k = "foo" -> {"bar"}])

PreprocessBags == BagsOver([k \in {"newPath", "databaseSynId"} |-> CASE k = "newPath" -> {"out/b.txt"} [] k = "databaseSynId" -> {"syn2"}])

ValidationBags == BagsOver([k \in {"oncotreeLink", "testing", "noSymbolCheck", "foo"} |-> CASE k = "oncotreeLink" -> {None} [] k = "testing" -> {"False"} [] k = "noSymbolCheck" -> {"False"} [] k = "foo" -> {"bar"}])

\* the texts given to the report formatter
Texts == {"", "err\n", "warn\n", "error\nnow", "warning\nnow"}

\* the (total_error, warning) pairs an overriding _validate hook returns
Reports == {<<"", "">>, <<"err\n", "warn\n">>, <<"", "warn\n">>, <<"err\n", "">>}

Filetypes == {None, "csv", "clinical", "cna", "foobar"}

RegistryEntries == {[tag |-> "csv", cls |-> "Csv"], [tag |-> "clinical", cls |-> "Clinical"], [tag |-> "cna", cls |-> "Cna"]}

\* the ordered registries without a repeated handler, up to MaxRegistry long
Registries == UNION {{r \in [1..n -> RegistryEntries] : \A i, j \in 1..n : r[i] = r[j] => i = j} : n \in 0..MaxRegistry}

\* what preprocess can return: the dict an overriding hook derives
PreprocessResults(cls) == IF Resolve(cls, "preprocess") = "FileTypeFormat" THEN {EmptyBag} ELSE PreprocessBags

\* what _validate can find: the report of an overriding hook
ValidateResults(cls) == IF Resolve(cls, "_validate") \in {"FileTypeFormat", "Csv"} THEN {<<"", "">>} ELSE Reports

\* the reports the handler validate_single_file resolves can produce
ResolvedResults(reg, filepathlist, center, filetype) ==
  LET resolved == IF filetype = None THEN determine_filetype(reg, 1, filepathlist, center) ELSE filetype
  IN IF resolved \in Tags(reg) THEN ValidateResults(ClassOf(reg, resolved)) ELSE {<<"", "">>}

NoFiles == [p \in OutPaths |-> <<>>]

(***************************************************************************)
(* The state machine: from idle, one entry point is called and runs to     *)
(* its return or exception; the caller then drops the transient values.    *)
(***************************************************************************)
Init == /\ registry \in Registries
        /\ op = "idle"
        /\ args = EmptyBag
        /\ calls = <<>>
        /\ result = Return(None)
        /\ fs = NoFiles

ValidateFilename == /\ op = "idle"
                    /\ \E cls \in Classes, center \in Centers :
                         \E filePath \in (IF Resolve(cls, "_validateFilename") = "FileTypeFormat" THEN Paths ELSE FileSets) :
                           /\ op' = "validateFilename"
                           /\ args' = [cls |-> cls, center |-> center, filePath |-> filePath]
                           /\ calls' = <<Call("_validateFilename", EmptyBag)>>
                           /\ result' = validateFilename(cls, filePath, center)
                    /\ UNCHANGED <<registry, fs>>

Validate == /\ op = "idle"
            /\ \E cls \in Classes, filePathList \in FileSets, kwargs \in ValidationBags :
                 \E rep \in ValidateResults(cls) :
                   /\ op' = "validate"
                   /\ args' = [cls |-> cls, filePathList |-> filePathList, kwargs |-> kwargs, rep |-> rep]
                   /\ calls' = validate(cls, filePathList, kwargs, rep).calls
                   /\ result' = validate(cls, filePathList, kwargs, rep).result
            /\ UNCHANGED <<registry, fs>>

Process == /\ op = "idle"
           /\ \E cls \in Classes, filePath \in Paths, kwargs \in ProcessBags :
                \E pre \in PreprocessResults(cls) :
                  /\ op' = "process"
                  /\ args' = [cls |-> cls, filePath |-> filePath, kwargs |-> kwargs, pre |-> pre]
                  /\ calls' = process(cls, filePath, kwargs, pre, fs).calls
                  /\ result' = process(cls, filePath, kwargs, pre, fs).result
                  /\ fs' = process(cls, filePath, kwargs, pre, fs).fs
           /\ UNCHANGED registry

\* Csv: load a table with readFile, then transform it with process_steps
LoadTransform == /\ op = "idle"
                 /\ \E filePathList \in FileSets, newPath \in OutPaths, databaseSynId \in {"syn1"} :
                      /\ readFile(filePathList).kind = "return"
                      /\ LET df == readFile(filePathList).value
                             kwargs == [k \in {"newPath", "databaseSynId"} |-> IF k = "newPath" THEN newPath ELSE databaseSynId]
                         IN /\ op' = "process_steps"
                            /\ args' = [cls |-> "Csv", df |-> df, newPath |-> newPath, databaseSynId |-> databaseSynId]
                            /\ calls' = <<Call("readFile", EmptyBag), Call("process_steps", kwargs)>>
                            /\ result' = process_steps("Csv", df, kwargs, fs).result
                            /\ fs' = process_steps("Csv", df, kwargs, fs).fs
                 /\ UNCHANGED registry

DetermineFiletype == /\ op = "idle"
                     /\ \E filepathlist \in FileSets, center \in Centers :
                          /\ op' = "determine_filetype"
                          /\ args' = [filepathlist |-> filepathlist, center |-> center]
                          /\ calls' = [i \in 1..Len(Asked(registry, 1, filepathlist, center)) |-> Call("validateFilename", [tag |-> Asked(registry, 1, filepathlist, center)[i]])]
                          /\ result' = Return(determine_filetype(registry, 1, filepathlist, center))
                     /\ UNCHANGED <<registry, fs>>

DetermineValidityAndLog == /\ op = "idle"
                           /\ \E total_error \in Texts, warning \in Texts :
                                /\ op' = "determine_validity_and_log"
                                /\ args' = [total_error |-> total_error, warning |-> warning]
                                /\ calls' = <<>>
                                /\ result' = Return(determine_validity_and_log(total_error, warning))
                           /\ UNCHANGED <<registry, fs>>

ValidateSingleFile == /\ op = "idle"
                      /\ \E filepathlist \in FileSets, center \in Centers, filetype \in Filetypes, kwargs \in ValidationBags :
                         \E rep \in ResolvedResults(registry, filepathlist, center, filetype) :
                           /\ op' = "validate_single_file"
                           /\ args' = [filepathlist |-> filepathlist, center |-> center, filetype |-> filetype, kwargs |-> kwargs, rep |-> rep]
                           /\ calls' = validate_single_file(registry, filepathlist, center, filetype, kwargs, rep).calls
                           /\ result' = validate_single_file(registry, filepathlist, center, filetype, kwargs, rep).result
                      /\ UNCHANGED <<registry, fs>>

CheckParentidInput == /\ op = "idle"
                      /\ \E parentid \in {None, "syn123"}, filetype \in {None, "csv"} :
                           /\ op' = "_check_parentid_input"
                           /\ args' = [parentid |-> parentid, filetype |-> filetype]
                           /\ calls' = <<>>
                           /\ result' = _check_parentid_input(parentid, filetype)
                      /\ UNCHANGED <<registry, fs>>

\* the call is over: its arguments, report and record set are dropped
Discard == /\ op /= "idle"
           /\ op' = "idle"
           /\ args' = EmptyBag
           /\ calls' = <<>>
           /\ result' = Return(None)
           /\ UNCHANGED <<registry, fs>>

Next == \/ ValidateFilename
        \/ Validate
        \/ Process
        \/ LoadTransform
        \/ DetermineFiletype
        \/ DetermineValidityAndLog
        \/ ValidateSingleFile
        \/ CheckParentidInput
        \/ Discard

Spec == Init /\ [][Next]_vars

(***************************************************************************)
(* The properties.                                                         *)
(***************************************************************************)
\* the names of the hooks in the call log
Fns == {calls[i].fn : i \in 1..Len(calls)}

\* the positions of the registry whose handler's filename hook accepts the files
Recognizing(filepathlist, center) == {i \in 1..Len(registry) : _validateFilename(registry[i].cls, filepathlist, center)}

\* the tag the dispatcher is to return
FirstTag(filepathlist, center) == IF Recognizing(filepathlist, center) = {} THEN None ELSE registry[SetMin(Recognizing(filepathlist, center))].tag

\* C1: determine_filetype returns the tag of the first handler, in registration
\* order, whose filename check succeeds, whatever later handlers would say, and
\* returns None without raising when no handler recognizes the files.
C1_FirstRecognizingHandler == op = "determine_filetype" => /\ result.kind = "return"
                                                           /\ result.value = FirstTag(args.filepathlist, args.center)

\* a dispatch in which two registered handlers recognize the files
C1_Witness == /\ op = "determine_filetype"
              /\ Cardinality(Recognizing(args.filepathlist, args.center)) = 2
              /\ registry[1].cls = "Clinical"
              /\ result.value = "clinical"

\* the required names of the last call, and the bag they are looked up in
RequiredNames == IF op = "process" THEN _process_kwargs(args.cls) ELSE _validation_kwargs(args.cls)

CheckedBag == IF op = "process" THEN [k \in (DOMAIN args.kwargs) \cup (DOMAIN preprocess(args.cls, args.pre)) |-> None] ELSE args.kwargs

AbsentNames == {RequiredNames[i] : i \in 1..Len(RequiredNames)} \ (DOMAIN CheckedBag)

\* C2: process or validate with a bag that lacks a required name fails with
\* an AssertionError naming a missing key, before readFile, _validate or
\* process_steps is called and with the files on disk as they were.
C2_MissingParameterFailsFirst == [][(op' \in {"process", "validate"} /\ AbsentNames' /= {}) =>
                                      /\ result'.kind = "raise"
                                      /\ result'.exc = "AssertionError"
                                      /\ \E k \in AbsentNames' : result'.msg = k \o " not in parameter list"
                                      /\ Fns' \cap {"readFile", "_validate", "process_steps"} = {}
                                      /\ fs' = fs]_vars

\* validate of a handler with required names, called without the last of them
C2_Witness == /\ op = "validate"
              /\ args.cls = "Clinical"
              /\ DOMAIN args.kwargs = {"oncotreeLink", "testing", "foo"}
              /\ result.msg = "noSymbolCheck not in parameter list"
              /\ calls = <<>>

\* the calls of the transform or validation hook in the call log
HookCalls == {i \in 1..Len(calls) : calls[i].fn \in {"process_steps", "_validate"}}

\* the bag the required names are taken from
SourceBag == IF op = "process" THEN Update(args.kwargs, preprocess(args.cls, args.pre)) ELSE args.kwargs

\* C3: with every required parameter present, the keywords forwarded to
\* process_steps and to _validate are exactly the declared required names, each
\* with its value in the bag; an extra key is dropped without error.
C3_ForwardsRequiredOnly == (op \in {"process", "validate"} /\ AbsentNames = {}) =>
                             /\ op = "process" => HookCalls = {2}
                             /\ op = "validate" /\ readFile(args.filePathList).kind = "return" => HookCalls = {2}
                             /\ \A i \in HookCalls : /\ DOMAIN calls[i].kwargs = {RequiredNames[j] : j \in 1..Len(RequiredNames)}
                                                     /\ \A k \in DOMAIN calls[i].kwargs : calls[i].kwargs[k] = SourceBag[k]
                             /\ result.exc /= "TypeError"

\* process with an extra key that does not reach process_steps
C3_Witness == /\ op = "process"
              /\ "foo" \in DOMAIN args.kwargs
              /\ Len(calls) = 2
              /\ DOMAIN calls[2].kwargs = {"newPath", "databaseSynId"}
              /\ result.kind = "return"

\* the pairs the tests of the formatter give, with the message they expect
C4_Tested == /\ determine_validity_and_log("", "") = [valid |-> TRUE, message |-> "YOUR FILE IS VALIDATED!\n"]
             /\ determine_validity_and_log("error\nnow", "warning\nnow") = [valid |-> FALSE, message |-> "----------------ERRORS----------------\nerror\nnow-------------WARNINGS-------------\nwarning\nnow"]
             /\ determine_validity_and_log("", "warning\nnow") = [valid |-> TRUE, message |-> "YOUR FILE IS VALIDATED!\n-------------WARNINGS-------------\nwarning\nnow"]

\* C4: the formatter returns valid = (total_error is empty) whatever the
\* warning, and the message: the success banner alone when both are empty, the
\* success banner and the warnings block when only total_error is empty, and
\* errors banner, total_error, warnings banner, warning otherwise, the
\* warnings banner being there even when warning is empty.
C4_ReportFormat == op = "determine_validity_and_log" =>
                     /\ result.value.valid = (args.total_error = "")
                     /\ args.total_error = "" /\ args.warning = "" => result.value.message = "YOUR FILE IS VALIDATED!\n"
                     /\ args.total_error = "" /\ args.warning /= "" => result.value.message = "YOUR FILE IS VALIDATED!\n" \o "-------------WARNINGS-------------\n" \o args.warning
                     /\ args.total_error /= "" => result.value.message = "----------------ERRORS----------------\n" \o args.total_error \o "-------------WARNINGS-------------\n" \o args.warning
                     /\ C4_Tested

\* an error report without warnings: the warnings banner ends the message
C4_Witness == /\ op = "determine_validity_and_log"
              /\ args.total_error = "err\n"
              /\ args.warning = ""
              /\ result.value.message = "----------------ERRORS----------------\nerr\n-------------WARNINGS-------------\n"
              /\ ~result.value.valid

\* no registered handler is resolved by the last validate_single_file
Unresolved == IF args.filetype = None THEN FirstTag(args.filepathlist, args.center) = None ELSE args.filetype \notin Tags(registry)

\* C5: validate_single_file raises the fixed filename message when no handler
\* is resolved, be it that dispatch returns None or that the filetype given
\* names no registered handler; no handler validation runs and nothing is
\* returned.
C5_UnrecognizedFileType == (op = "validate_single_file" /\ Unresolved) =>
                             /\ result = Raise("ValueError", "Your filename is incorrect! Please change your filename before you run the validator or specify --filetype if you are running the validator locally")
                             /\ Fns \cap {"validate", "readFile", "_validate", "determine_validity_and_log"} = {}

\* files that no handler of a non-empty registry recognizes, no filetype given
C5_Witness == /\ op = "validate_single_file"
              /\ args.filetype = None
              /\ Len(registry) = 2
              /\ args.filepathlist = <<"wrong.txt">>
              /\ result.exc = "ValueError"
              /\ Len(calls) = 1

\* the dispatch calls in the call log
DispatchCalls == {i \in 1..Len(calls) : calls[i].fn = "determine_filetype"}

\* C6: with an explicit filetype, validate_single_file never calls
\* determine_filetype and the tag it returns is the one given; without one it
\* calls determine_filetype exactly once, with the file list and the center,
\* and the tag it returns is the dispatcher's.
C6_ExplicitFiletypeBypassesDispatch == op = "validate_single_file" =>
                                         /\ args.filetype /= None => /\ DispatchCalls = {}
                                                                     /\ result.kind = "return" => result.value.filetype = args.filetype
                                         /\ args.filetype = None => /\ DispatchCalls = {1}
                                                                    /\ calls[1].kwargs = [filepathlist |-> args.filepathlist, center |-> args.center]
                                                                    /\ result.kind = "return" => result.value.filetype = FirstTag(args.filepathlist, args.center)

\* a filetype given for files the dispatcher would give another tag
C6_Witness == /\ op = "validate_single_file"
              /\ args.filetype = "cna"
              /\ FirstTag(args.filepathlist, args.center) = "clinical"
              /\ result.kind = "return"
              /\ result.value.filetype = "cna"

\* C7: _check_parentid_input raises the fixed message exactly when both the
\* parentid and the filetype are given, and returns in the three other cases.
C7_ParentidExcludesFiletype == op = "_check_parentid_input" =>
                                 IF args.parentid /= None /\ args.filetype /= None
                                 THEN result = Raise("ValueError", "If you used --parentid, you must not use --filetype")
                                 ELSE result.kind = "return"

\* only one of the two given: the guard returns
C7_Witness == /\ op = "_check_parentid_input"
              /\ args.parentid = "syn123"
              /\ args.filetype = None
              /\ result.kind = "return"

\* C8: Csv.process_steps on a loaded table writes, to newPath, the header of
\* the table upper-cased name by name in the same order and the rows of the
\* table, as many and with the same cells; it returns newPath.
C8_UpperCasedHeaderSameRows == op = "process_steps" =>
                                 LET out == fs[args.newPath]
                                     width == Len(args.df.columns)
                                 IN /\ result = Return(args.newPath)
                                    /\ Split(out[1], "\t") = [i \in 1..width |-> upper(args.df.columns[i])]
                                    /\ Len(out) - 1 = Len(args.df.rows)
                                    /\ \A r \in 1..Len(args.df.rows) : ParseRow(out[r + 1], width) = args.df.rows[r]

\* a table of three rows with lower-case names written upper-cased
C8_Witness == /\ op = "process_steps"
              /\ args.df.columns = <<"id", "value", "id.1">>
              /\ Len(args.df.rows) = 3
              /\ args.newPath = "out/b.txt"
              /\ fs["out/b.txt"][1] = "ID\tVALUE\tID.1"

\* the calls of preprocess in the call log
PreprocessCalls == {i \in 1..Len(calls) : calls[i].fn = "preprocess"}

\* C9: process runs preprocess once, before the required-parameter check, and
\* merges what it returns into the bag before the check: a required name the
\* caller left out and preprocess returned passes the check and reaches
\* process_steps with the value of preprocess.  validate never runs preprocess:
\* only the caller's keys count for its check.
C9_PreprocessMergedBeforeCheck == /\ op = "process" => /\ PreprocessCalls = {1}
                                                       /\ \A k \in (DOMAIN args.pre) \ (DOMAIN args.kwargs) :
                                                            AbsentNames = {} /\ k \in {RequiredNames[j] : j \in 1..Len(RequiredNames)} =>
                                                              /\ result.exc /= "AssertionError"
                                                              /\ Len(calls) = 2
                                                              /\ calls[2].kwargs[k] = args.pre[k]
                                  /\ op = "validate" => /\ PreprocessCalls = {}
                                                        /\ (\E j \in 1..Len(RequiredNames) : RequiredNames[j] \notin DOMAIN args.kwargs) => result.exc = "AssertionError"

\* a required name left out by the caller and supplied by preprocess
C9_Witness == /\ op = "process"
              /\ args.cls = "Clinical"
              /\ DOMAIN args.kwargs = {"newPath"}
              /\ args.pre = [k \in {"databaseSynId"} |-> "syn2"]
              /\ Len(calls) = 2
              /\ calls[2].kwargs["databaseSynId"] = "syn2"

\* C10: validateFilename on the Csv handler returns "csv" for a path whose
\* basename ends with ".csv" and fails for any other path.
C10_CsvFilenameRule == (op = "validateFilename" /\ args.cls = "Csv") =>
                         IF endswith(basename(args.filePath), ".csv") THEN result = Return("csv") ELSE result.kind = "raise"

====
